---- MODULE Spec2Model ----
(***************************************************************************)
(* svgcleaner, task/apply_transforms/shapes.rs: apply_transform_to_shapes. *)
(* A document is a tree of elements; the run first pushes the transform of *)
(* a group of valid shapes down to its children (hoisting), then folds the *)
(* transform of every rect, circle, ellipse and line into its coordinates  *)
(* (baking). Floating point numbers are modelled by integers.              *)
(***************************************************************************)
EXTENDS Integers, Sequences, FiniteSets, TLC

VARIABLES tag,      \* node -> element kind (EId)
          parent,   \* node -> parent node, -1 for the root
          attrs,    \* node -> attribute set (AId -> AttributeValue)
          phase,    \* "hoist" (first loop), "bake" (second loop), "done"
          cur,      \* position of the descendants() iterator, in document order
          aborted,  \* an unwrap() panicked: the run stopped where it was
          run,      \* number of the current run of apply_transform_to_shapes
          before,   \* attrs when the current run started
          attrsH,   \* attrs when the hoisting loop of the current run ended
          attrs0    \* attrs of the input document

vars == <<tag, parent, attrs, phase, cur, aborted, run, before, attrsH, attrs0>>

\* ------------------------------------------------------------ bounds
\* how many times the pass is run on one document
MaxRuns == 2
\* largest uniform scale factor of an input transform
MaxScale == 2

\* ------------------------------------------------------------ values
Nodes == 0..3

Shapes == {"rect", "circle", "ellipse", "line"}

Length(n, u) == [t |-> "Length", num |-> n, unit |-> u]
Ts(a, b, c, d, e, f) == [t |-> "Transform", a |-> a, b |-> b, c |-> c, d |-> d, e |-> e, f |-> f]
FuncLink == [t |-> "FuncLink"]
Color == [t |-> "Color"]
Str == [t |-> "String"]

NoAttrs == [x \in {} |-> Str]
Put(a, aid, v) == [x \in DOMAIN a \cup {aid} |-> IF x = aid THEN v ELSE a[x]]
Remove(a, aid) == [x \in DOMAIN a \ {aid} |-> a[x]]
Has(a, aid) == aid \in DOMAIN a
IsA(a, aid, type) == Has(a, aid) /\ a[aid].t = type

\* ------------------------------------------------------------ svgdom::types::Transform
\* point application
Apply(ts, x, y) == <<x * ts.a + y * ts.c + ts.e, x * ts.b + y * ts.d + ts.f>>

\* ts1.append(&ts2): ts1 becomes ts1 * ts2, which maps p to ts1(ts2(p))
append(ts1, ts2) ==
    Ts(ts1.a * ts2.a + ts1.c * ts2.b,
       ts1.b * ts2.a + ts1.d * ts2.b,
       ts1.a * ts2.c + ts1.c * ts2.d,
       ts1.b * ts2.c + ts1.d * ts2.d,
       ts1.a * ts2.e + ts1.c * ts2.f + ts1.e,
       ts1.b * ts2.e + ts1.d * ts2.f + ts1.f)

ISqrt(n) == CHOOSE s \in 0..n : s * s <= n /\ (s + 1) * (s + 1) > n

\* the lengths of the images of the two unit vectors
get_scale(ts) == <<ISqrt(ts.a * ts.a + ts.b * ts.b), ISqrt(ts.c * ts.c + ts.d * ts.d)>>

has_scale(ts) == ts.a * ts.a + ts.b * ts.b # 1 \/ ts.c * ts.c + ts.d * ts.d # 1

has_proportional_scale(ts) == ts.a * ts.a + ts.b * ts.b = ts.c * ts.c + ts.d * ts.d

\* the transform has a skew component: the images of the two unit vectors are not
\* perpendicular (a rotation, a translation and a uniform scale have none)
has_skew(ts) == ts.a * ts.c + ts.b * ts.d # 0

\* ------------------------------------------------------------ validity gate
get_ts(a) == a["transform"]

\* get_ts unwraps as_transform(): a transform attribute of another type panics
ts_panics(a) == Has(a, "transform") /\ a["transform"].t # "Transform"

is_valid_transform(a) ==
    IF ~Has(a, "transform") THEN TRUE
    ELSE LET ts == get_ts(a) IN
         IF has_scale(ts) /\ ~has_proportional_scale(ts) THEN FALSE
         ELSE IF has_skew(ts) THEN FALSE
         ELSE TRUE

\* is_valid_attrs without its last check
is_valid_attrs_no_mask(a) ==
    IF IsA(a, "fill", "FuncLink") THEN FALSE
    ELSE IF IsA(a, "stroke", "FuncLink") THEN FALSE
    ELSE IF IsA(a, "filter", "FuncLink") THEN FALSE
    ELSE TRUE

is_valid_attrs(a) ==
    IF IsA(a, "fill", "FuncLink") THEN FALSE
    ELSE IF IsA(a, "stroke", "FuncLink") THEN FALSE
    ELSE IF IsA(a, "filter", "FuncLink") THEN FALSE
    ELSE IF Has(a, "mask") \/ Has(a, "clip-path") THEN FALSE
    ELSE TRUE

is_valid_coord(a, aid) == IF IsA(a, aid, "Length") THEN a[aid].unit = "none" ELSE TRUE

is_valid_coords_of(a, attr_ids) == \A aid \in attr_ids : is_valid_coord(a, aid)

\* is_valid_coords looking at the first coordinate of each pair only
is_valid_coords_first(k, a) ==
    CASE k = "rect" -> is_valid_coords_of(a, {"x"})
      [] k = "circle" -> is_valid_coords_of(a, {"cx"})
      [] k = "ellipse" -> is_valid_coords_of(a, {"cx"})
      [] k = "line" -> is_valid_coords_of(a, {"x1", "x2"})
      [] OTHER -> FALSE

is_valid_coords(k, a) ==
    CASE k = "rect" -> is_valid_coords_of(a, {"x", "y"})
      [] k = "circle" -> is_valid_coords_of(a, {"cx", "cy"})
      [] k = "ellipse" -> is_valid_coords_of(a, {"cx", "cy"})
      [] k = "line" -> is_valid_coords_of(a, {"x1", "y1", "x2", "y2"})
      [] OTHER -> FALSE

\* ------------------------------------------------------------ baking
\* get_value!(attrs, Length, aid, Length::zero())
get_length(a, aid) == IF IsA(a, aid, "Length") THEN a[aid] ELSE Length(0, "none")

\* scale_pos_coord that leaves a missing coordinate missing
scale_pos_coord_present(a, aid_x, aid_y, ts) ==
    LET x == get_length(a, aid_x)
        y == get_length(a, aid_y)
        p == Apply(ts, x.num, y.num)
        a1 == IF Has(a, aid_x) THEN Put(a, aid_x, Length(p[1], "none")) ELSE a
    IN IF Has(a, aid_y) THEN Put(a1, aid_y, Length(p[2], "none")) ELSE a1

scale_pos_coord(a, aid_x, aid_y, ts) ==
    LET x == get_length(a, aid_x)
        y == get_length(a, aid_y)
        p == Apply(ts, x.num, y.num)
    IN Put(Put(a, aid_x, Length(p[1], "none")), aid_y, Length(p[2], "none"))

scale_coord(a, aid, scale_factor) ==
    IF IsA(a, aid, "Length")
    THEN Put(a, aid, Length(a[aid].num * scale_factor, a[aid].unit))
    ELSE a

rect_func(a, ts) ==
    LET a1 == scale_pos_coord(a, "x", "y", ts) IN
    IF has_scale(ts)
    THEN LET sx == get_scale(ts)[1] IN
         scale_coord(scale_coord(scale_coord(scale_coord(a1, "width", sx), "height", sx), "rx", sx), "ry", sx)
    ELSE a1

circle_func(a, ts) ==
    LET a1 == scale_pos_coord(a, "cx", "cy", ts) IN
    IF has_scale(ts) THEN scale_coord(a1, "r", get_scale(ts)[1]) ELSE a1

ellipse_func(a, ts) ==
    LET a1 == scale_pos_coord(a, "cx", "cy", ts) IN
    IF has_scale(ts)
    THEN LET sx == get_scale(ts)[1] IN scale_coord(scale_coord(a1, "rx", sx), "ry", sx)
    ELSE a1

line_func(a, ts) == scale_pos_coord(scale_pos_coord(a, "x1", "y1", ts), "x2", "y2", ts)

func(k, a, ts) ==
    CASE k = "rect" -> rect_func(a, ts)
      [] k = "circle" -> circle_func(a, ts)
      [] k = "ellipse" -> ellipse_func(a, ts)
      [] k = "line" -> line_func(a, ts)

\* the stroke-width in effect on node n: its own, else the nearest ancestor's, else 1
RECURSIVE resolve_stroke_width(_, _)
resolve_stroke_width(A, n) ==
    IF n = -1 THEN Length(1, "none")
    ELSE IF IsA(A[n], "stroke-width", "Length") THEN A[n]["stroke-width"]
    ELSE resolve_stroke_width(A, parent[n])

\* task::utils::recalc_stroke_width
recalc_stroke_width(A, n, scale_factor) ==
    LET w == resolve_stroke_width(A, n) IN
    [A EXCEPT ![n] = Put(A[n], "stroke-width", Length(w.num * scale_factor, w.unit))]

process_gate(k, a) == is_valid_transform(a) /\ is_valid_attrs(a) /\ is_valid_coords(k, a)

\* process that forgets the stroke-width
process_no_stroke(A, n, k) ==
    IF ~process_gate(k, A[n]) THEN A
    ELSE [A EXCEPT ![n] = Remove(func(k, A[n], get_ts(A[n])), "transform")]

\* process that leaves the transform on the node
process_keep_ts(A, n, k) ==
    IF ~process_gate(k, A[n]) THEN A
    ELSE LET ts == get_ts(A[n])
             A1 == [A EXCEPT ![n] = func(k, A[n], ts)]
         IN IF has_scale(ts) THEN recalc_stroke_width(A1, n, get_scale(ts)[1]) ELSE A1

\* process(node, func), for a node whose transform is a Transform
process(A, n, k) ==
    IF ~process_gate(k, A[n]) THEN A
    ELSE LET ts == get_ts(A[n])
             A1 == [A EXCEPT ![n] = Remove(func(k, A[n], ts), "transform")]
         IN IF has_scale(ts) THEN recalc_stroke_width(A1, n, get_scale(ts)[1]) ELSE A1

\* ------------------------------------------------------------ hoisting
RECURSIVE children_from(_, _)
children_from(n, i) ==
    IF i \notin Nodes THEN <<>>
    ELSE (IF parent[i] = n THEN <<i>> ELSE <<>>) \o children_from(n, i + 1)

\* node.children().svg(), in document order
children(n) == children_from(n, 0)

is_shape(k) == k \in Shapes

\* the closure of all(): "panic" when get_ts reads a transform attribute that holds no Transform
child_check(k, a) ==
    IF ~is_shape(k) THEN "fail"
    ELSE IF ts_panics(a) THEN "panic"
    ELSE IF is_valid_transform(a) /\ is_valid_attrs(a) /\ is_valid_coords(k, a) THEN "ok"
    ELSE "fail"

\* all() that looks at the first child only
all_children_valid_first(A, kids) ==
    IF kids = <<>> THEN "ok" ELSE child_check(tag[Head(kids)], A[Head(kids)])

\* Iterator::all stops at the first child whose closure is false
RECURSIVE all_children_valid(_, _)
all_children_valid(A, kids) ==
    IF kids = <<>> THEN "ok"
    ELSE LET r == child_check(tag[Head(kids)], A[Head(kids)]) IN
         IF r = "ok" THEN all_children_valid(A, Tail(kids)) ELSE r

\* the matrices multiplied the other way round
hoisted_ts_reversed(ts, a) == IF Has(a, "transform") THEN append(get_ts(a), ts) ELSE ts

\* the transform a child gets from its group
hoisted_ts(ts, a) == IF Has(a, "transform") THEN append(ts, get_ts(a)) ELSE ts

\* hoist that leaves the transform on the group
hoist_keep_group(A, g) ==
    LET ts == get_ts(A[g]) IN
    [n \in Nodes |->
        IF parent[n] = g THEN Put(A[n], "transform", hoisted_ts(ts, A[n])) ELSE A[n]]

hoist(A, g) ==
    LET ts == get_ts(A[g]) IN
    [n \in Nodes |->
        IF n = g THEN Remove(A[n], "transform")
        ELSE IF parent[n] = g THEN Put(A[n], "transform", hoisted_ts(ts, A[n]))
        ELSE A[n]]

\* the filter of the first loop
is_hoist_candidate(n) == tag[n] = "g" /\ Has(attrs[n], "transform")

\* ------------------------------------------------------------ input documents
BaseNum(aid) ==
    CASE aid \in {"x", "cx", "x1", "rx"} -> 1
      [] aid \in {"y", "cy", "y1", "ry"} -> 2
      [] aid \in {"width", "x2", "r"} -> 3
      [] aid = "height" -> 4
      [] aid = "y2" -> 5

PosAttrs(k) ==
    CASE k = "rect" -> {"x", "y"}
      [] k \in {"circle", "ellipse"} -> {"cx", "cy"}
      [] k = "line" -> {"x1", "y1", "x2", "y2"}

SizeAttrs(k) ==
    CASE k = "rect" -> {"width", "height", "rx", "ry"}
      [] k = "circle" -> {"r"}
      [] k = "ellipse" -> {"rx", "ry"}
      [] k = "line" -> {}

Geom(k) == [aid \in PosAttrs(k) \cup SizeAttrs(k) |-> Length(BaseNum(aid), "none")]

\* one attribute missing, or with a unit, or (a position) of another type
GeomOpts(k) ==
    {Geom(k)}
    \cup {Remove(Geom(k), aid) : aid \in DOMAIN Geom(k)}
    \cup {Put(Geom(k), aid, Length(BaseNum(aid), "in")) : aid \in PosAttrs(k)}
    \cup {Put(Geom(k), aid, Length(BaseNum(aid), "%")) : aid \in SizeAttrs(k)}
    \cup {Put(Geom(k), aid, Str) : aid \in {CHOOSE p \in PosAttrs(k) : TRUE}}

Translate == Ts(1, 0, 0, 1, 1, 2)
TranslateScale(s) == Ts(s, 0, 0, s, 1, 2)
Rotate == Ts(0, 1, -1, 0, 0, 0)
SkewX == Ts(1, 0, 1, 1, 0, 0)
ScaleXY == Ts(2, 0, 0, 3, 0, 0)

ScaledTs == {TranslateScale(s) : s \in 2..MaxScale}
ValidTs == {Translate, Rotate} \cup ScaledTs
InvalidTs == {SkewX, ScaleXY, Str}

WithTs(a, tss) == {Put(a, "transform", ts) : ts \in tss}

PaintOpts ==
    {Put(NoAttrs, "fill", FuncLink), Put(NoAttrs, "stroke", FuncLink),
     Put(NoAttrs, "filter", FuncLink), Put(NoAttrs, "mask", FuncLink),
     Put(NoAttrs, "clip-path", FuncLink), Put(NoAttrs, "fill", Color),
     Put(NoAttrs, "stroke-width", Length(3, "none"))}

Elem(k, a) == [tag |-> k, attrs |-> [x \in DOMAIN a |-> a[x]]]

\* the elements a document is built from: every one has at most one irregular feature
FullLeaf ==
    UNION {{Elem(k, a) : a \in GeomOpts(k) \cup UNION {WithTs(g, {Translate} \cup ScaledTs) : g \in GeomOpts(k)}} : k \in Shapes}
    \cup UNION {{Elem(k, a) : a \in WithTs(Geom(k), InvalidTs \cup {Rotate})} : k \in Shapes}
    \cup UNION {{Elem(k, a) : a \in UNION {{Geom(k) @@ p} \cup WithTs(Geom(k) @@ p, ScaledTs) : p \in PaintOpts}} : k \in {"rect", "line"}}
    \cup {Elem(k, a) : k \in {"path", "g"}, a \in {NoAttrs} \cup WithTs(NoAttrs, {Translate, SkewX, Str})}

LiteLeaf ==
    {Elem("rect", Geom("rect")),
     Elem("rect", Put(Geom("rect"), "transform", Translate)),
     Elem("circle", Put(Geom("circle"), "transform", TranslateScale(2))),
     Elem("path", Put(NoAttrs, "transform", Translate))}

FullGroup ==
    {Elem("g", a) : a \in UNION {{p} \cup WithTs(p, ValidTs) : p \in PaintOpts \cup {NoAttrs}}}
    \cup {Elem("g", a) : a \in WithTs(NoAttrs, InvalidTs)}

LiteGroup ==
    {Elem("g", NoAttrs),
     Elem("g", Put(NoAttrs, "transform", TranslateScale(2))),
     Elem("g", Put(Put(NoAttrs, "transform", Translate), "stroke-width", Length(5, "none")))}

FullRoot == {Elem("svg", NoAttrs), Elem("svg", Put(NoAttrs, "stroke-width", Length(2, "none")))}
LiteRoot == {Elem("svg", NoAttrs)}

\* the trees: node n + 1 of a tuple is node n; nodes are numbered in document order
Trees == {<<-1, 0, 1, 1>>, <<-1, 0, 1, 2>>}

HasChild(tr, n) == \E m \in Nodes : tr[m + 1] = n

Opts(tr, n, full) ==
    IF n = 0 THEN (IF full THEN FullRoot ELSE LiteRoot)
    ELSE IF HasChild(tr, n) THEN (IF full THEN FullGroup ELSE LiteGroup)
    ELSE (IF full THEN FullLeaf ELSE LiteLeaf)

\* ------------------------------------------------------------ the run
\* the input document: one node of the tree takes any element, the others a few
Init ==
    \E tr \in Trees, f \in Nodes :
      \E e0 \in Opts(tr, 0, f = 0), e1 \in Opts(tr, 1, f = 1),
         e2 \in Opts(tr, 2, f = 2), e3 \in Opts(tr, 3, f = 3) :
        /\ tag = [n \in Nodes |-> <<e0, e1, e2, e3>>[n + 1].tag]
        /\ parent = [n \in Nodes |-> tr[n + 1]]
        /\ attrs = [n \in Nodes |-> <<e0, e1, e2, e3>>[n + 1].attrs]
        /\ attrs0 = attrs
        /\ before = attrs
        /\ attrsH = attrs
        /\ phase = "hoist"
        /\ cur = 0
        /\ aborted = FALSE
        /\ run = 1

Running(p) == phase = p /\ ~aborted /\ cur \in Nodes

Step == /\ cur' = cur + 1
        /\ UNCHANGED <<tag, parent, phase, aborted, run, before, attrsH, attrs0>>

Abort == /\ aborted' = TRUE
         /\ UNCHANGED <<tag, parent, attrs, phase, cur, run, before, attrsH, attrs0>>

\* the first loop's filter drops the node
HoistFilter ==
    /\ Running("hoist")
    /\ ~is_hoist_candidate(cur)
    /\ Step /\ UNCHANGED attrs

\* get_ts panics in is_valid_transform(&node) or in the check of the children
HoistPanic ==
    /\ Running("hoist")
    /\ is_hoist_candidate(cur)
    /\ \/ ts_panics(attrs[cur])
       \/ /\ ~ts_panics(attrs[cur])
          /\ is_valid_transform(attrs[cur]) /\ is_valid_attrs(attrs[cur])
          /\ all_children_valid(attrs, children(cur)) = "panic"
    /\ Abort

\* the group fails its own checks: continue
HoistContinue ==
    /\ Running("hoist")
    /\ is_hoist_candidate(cur)
    /\ ~ts_panics(attrs[cur])
    /\ ~is_valid_transform(attrs[cur]) \/ ~is_valid_attrs(attrs[cur])
    /\ Step /\ UNCHANGED attrs

\* a child fails the check
HoistKeep ==
    /\ Running("hoist")
    /\ is_hoist_candidate(cur)
    /\ ~ts_panics(attrs[cur])
    /\ is_valid_transform(attrs[cur]) /\ is_valid_attrs(attrs[cur])
    /\ all_children_valid(attrs, children(cur)) = "fail"
    /\ Step /\ UNCHANGED attrs

\* the group's transform goes to its children
HoistGroup ==
    /\ Running("hoist")
    /\ is_hoist_candidate(cur)
    /\ ~ts_panics(attrs[cur])
    /\ is_valid_transform(attrs[cur]) /\ is_valid_attrs(attrs[cur])
    /\ all_children_valid(attrs, children(cur)) = "ok"
    /\ attrs' = hoist(attrs, cur)
    /\ Step

\* the first loop ends, the second starts
HoistEnd ==
    /\ phase = "hoist" /\ ~aborted /\ cur \notin Nodes
    /\ phase' = "bake"
    /\ cur' = 0
    /\ attrsH' = attrs
    /\ UNCHANGED <<tag, parent, attrs, aborted, run, before, attrs0>>

\* the second loop's filter drops the node
BakeFilter ==
    /\ Running("bake")
    /\ ~Has(attrs[cur], "transform")
    /\ Step /\ UNCHANGED attrs

\* the match's default arm
BakeOther ==
    /\ Running("bake")
    /\ Has(attrs[cur], "transform")
    /\ ~is_shape(tag[cur])
    /\ Step /\ UNCHANGED attrs

\* get_ts panics in process
BakePanic ==
    /\ Running("bake")
    /\ is_shape(tag[cur])
    /\ ts_panics(attrs[cur])
    /\ Abort

\* process(node, func) on a node whose transform is a Transform
Bake(k) ==
    /\ Has(attrs[cur], "transform")
    /\ ~ts_panics(attrs[cur])
    /\ attrs' = process(attrs, cur, k)
    /\ Step

process_rect ==
    /\ Running("bake") /\ tag[cur] = "rect"
    /\ Bake("rect")

process_circle ==
    /\ Running("bake") /\ tag[cur] = "circle"
    /\ Bake("circle")

process_ellipse ==
    /\ Running("bake") /\ tag[cur] = "ellipse"
    /\ Bake("ellipse")

process_line ==
    /\ Running("bake") /\ tag[cur] = "line"
    /\ Bake("line")

BakeEnd ==
    /\ phase = "bake" /\ ~aborted /\ cur \notin Nodes
    /\ phase' = "done"
    /\ UNCHANGED <<tag, parent, attrs, cur, aborted, run, before, attrsH, attrs0>>

\* apply_transform_to_shapes is called again on its result
Rerun ==
    /\ phase = "done" /\ ~aborted /\ run < MaxRuns
    /\ run' = run + 1
    /\ before' = attrs
    /\ attrsH' = attrs
    /\ phase' = "hoist"
    /\ cur' = 0
    /\ UNCHANGED <<tag, parent, attrs, aborted, attrs0>>

Next ==
    \/ HoistFilter
    \/ HoistPanic
    \/ HoistContinue
    \/ HoistKeep
    \/ HoistGroup
    \/ HoistEnd
    \/ BakeFilter
    \/ BakeOther
    \/ BakePanic
    \/ process_rect
    \/ process_circle
    \/ process_ellipse
    \/ process_line
    \/ BakeEnd
    \/ Rerun

Spec == Init /\ [][Next]_vars

\* ------------------------------------------------------------ properties
\* the attributes as the hoisting loop leaves them (so far, while it runs)
AfterHoist == IF phase = "hoist" THEN attrs ELSE attrsH

HoistOver == phase \in {"bake", "done"}

\* the second loop has passed node n
Visited(n) == phase = "done" \/ (phase = "bake" /\ cur > n)

ChildrenOf(g) == {c \in Nodes : parent[c] = g}

TypedTs(a) == IsA(a, "transform", "Transform")

\* a transform with skew or with a scale that is not proportional
BadTs(a) == TypedTs(a) /\ (has_skew(get_ts(a)) \/ ~has_proportional_scale(get_ts(a)))

\* a linked paint, filter, mask or clip path
BadAttrs(a) ==
    \/ IsA(a, "fill", "FuncLink") \/ IsA(a, "stroke", "FuncLink") \/ IsA(a, "filter", "FuncLink")
    \/ Has(a, "mask") \/ Has(a, "clip-path")

HasUnit(a, aids) == \E aid \in aids : IsA(a, aid, "Length") /\ a[aid].unit # "none"

\* a child that makes its group ineligible
IneligibleChild(c, B) ==
    \/ ~is_shape(tag[c])
    \/ BadTs(B[c])
    \/ BadAttrs(B[c])
    \/ HasUnit(B[c], PosAttrs(tag[c]))

GroupWithIneligibleChild(g, B) ==
    /\ tag[g] = "g"
    /\ Has(B[g], "transform")
    /\ \E c \in ChildrenOf(g) : IneligibleChild(c, B)

\* C1 as stated: a group with a transform and an ineligible child comes out of the
\* hoisting loop with its own attributes and those of every direct child unchanged.
C1_Original ==
    \A g \in Nodes :
        GroupWithIneligibleChild(g, before) =>
            /\ AfterHoist[g] = before[g]
            /\ \A c \in ChildrenOf(g) : AfterHoist[c] = before[c]

\* C1 (amended): a group with a transform and an ineligible child keeps its
\* transform, and no direct child receives or has composed the group's transform:
\* a direct child is unchanged by the hoisting loop, unless it is itself a group,
\* which may have lost its own transform to its own children.
C1_AllOrNothing ==
    \A g \in Nodes :
        GroupWithIneligibleChild(g, before) =>
            /\ AfterHoist[g] = before[g]
            /\ \A c \in ChildrenOf(g) :
                \/ AfterHoist[c] = before[c]
                \/ /\ tag[c] = "g"
                   /\ Has(before[c], "transform")
                   /\ AfterHoist[c] = Remove(before[c], "transform")

\* a valid group with a transform, one valid shape and one ineligible child, after the loop
C1_Witness ==
    /\ HoistOver
    /\ \E g \in Nodes :
        /\ GroupWithIneligibleChild(g, before)
        /\ TypedTs(before[g]) /\ ~BadTs(before[g]) /\ ~BadAttrs(before[g])
        /\ \E c \in ChildrenOf(g) : ~IneligibleChild(c, before) /\ ~ts_panics(before[c])

\* C2: an element that had a skewed or non-proportionally scaled transform, a linked
\* fill, stroke or filter, or a mask or clip-path when the run started has the
\* attributes it had then.
C2_Gating == \A n \in Nodes : (BadTs(before[n]) \/ BadAttrs(before[n])) => attrs[n] = before[n]

\* a finished run over a shape with a linked paint or a mask, in a group with a valid transform
C2_Witness ==
    /\ phase = "done"
    /\ \E n \in Nodes :
        /\ is_shape(tag[n])
        /\ BadAttrs(before[n])
        /\ parent[n] # -1
        /\ TypedTs(before[parent[n]]) /\ ~BadTs(before[parent[n]]) /\ ~BadAttrs(before[parent[n]])

\* C3 as stated: a shape with a unit on a position or size attribute has the
\* attributes it had when the run started.
C3_Original ==
    \A n \in Nodes :
        (is_shape(tag[n]) /\ HasUnit(before[n], PosAttrs(tag[n]) \cup SizeAttrs(tag[n])))
            => attrs[n] = before[n]

\* C3 (amended): a shape with a unit on a position attribute (rect x, y; circle and
\* ellipse cx, cy; line x1, y1, x2, y2) has the attributes it had when the run started.
C3_PositionUnits ==
    \A n \in Nodes :
        (is_shape(tag[n]) /\ HasUnit(before[n], PosAttrs(tag[n]))) => attrs[n] = before[n]

\* a finished run over a shape with a unit on a position and a valid transform of
\* its own or of its group
C3_Witness ==
    /\ phase = "done"
    /\ \E n \in Nodes :
        /\ is_shape(tag[n])
        /\ HasUnit(before[n], PosAttrs(tag[n]))
        /\ ~BadAttrs(before[n])
        /\ \/ TypedTs(before[n]) /\ ~BadTs(before[n])
           \/ parent[n] # -1 /\ TypedTs(before[parent[n]]) /\ ~BadTs(before[parent[n]])

\* a shape the second loop found with a transform that passes the three checks
Baked(n) ==
    /\ is_shape(tag[n])
    /\ Visited(n)
    /\ TypedTs(attrsH[n])
    /\ process_gate(tag[n], attrsH[n])

PosPairs(k) ==
    CASE k = "rect" -> {<<"x", "y">>}
      [] k \in {"circle", "ellipse"} -> {<<"cx", "cy">>}
      [] k = "line" -> {<<"x1", "y1">>, <<"x2", "y2">>}

\* the number of a position attribute, 0 when it is missing
NumOr0(a, aid) == IF Has(a, aid) THEN a[aid].num ELSE 0

\* every position attribute is missing or a length
TypedPos(k, a) == \A aid \in PosAttrs(k) : Has(a, aid) => a[aid].t = "Length"

\* C4: baking a shape with transform T replaces each position pair by its image
\* under T (a missing coordinate read as 0 and written back without unit),
\* multiplies each size attribute that is present by sx when T has a scale and
\* leaves it alone otherwise, and removes the transform.
C4_Rewrite ==
    \A n \in Nodes :
        (Baked(n) /\ TypedPos(tag[n], attrsH[n])) =>
            LET b == attrsH[n]
                a == attrs[n]
                T == get_ts(b)
                sx == get_scale(T)[1]
            IN /\ ~Has(a, "transform")
               /\ \A pp \in PosPairs(tag[n]) :
                    LET x == NumOr0(b, pp[1])
                        y == NumOr0(b, pp[2])
                    IN /\ Has(a, pp[1]) /\ Has(a, pp[2])
                       /\ a[pp[1]] = Length(T.a * x + T.c * y + T.e, "none")
                       /\ a[pp[2]] = Length(T.b * x + T.d * y + T.f, "none")
               /\ \A aid \in SizeAttrs(tag[n]) :
                    IF Has(b, aid)
                    THEN /\ Has(a, aid)
                         /\ a[aid] = IF has_scale(T) THEN Length(b[aid].num * sx, b[aid].unit) ELSE b[aid]
                    ELSE ~Has(a, aid)
               /\ tag[n] = "line" => \A aid \in DOMAIN b \ (PosAttrs("line") \cup {"transform", "stroke-width"}) :
                                        Has(a, aid) /\ a[aid] = b[aid]

\* a baked shape whose transform has a scale and that had a position attribute missing
C4_Witness ==
    \E n \in Nodes :
        /\ Baked(n) /\ TypedPos(tag[n], attrsH[n])
        /\ has_scale(get_ts(attrsH[n]))
        /\ \E aid \in PosAttrs(tag[n]) : ~Has(attrsH[n], aid)

\* every position and size attribute of the rect is a length without unit
PlainRect(a) ==
    \A aid \in {"x", "y", "width", "height"} : IsA(a, aid, "Length") /\ a[aid].unit = "none"

Corners(a) ==
    LET x == a["x"].num
        y == a["y"].num
        w == a["width"].num
        h == a["height"].num
    IN <<(<<x, y>>), (<<x + w, y>>), (<<x, y + h>>), (<<x + w, y + h>>)>>

\* C5: the four corners of a baked rect are the images under T of the four
\* corners of the rect before baking.
C5_VisualEquivalence ==
    \A n \in Nodes :
        (Baked(n) /\ tag[n] = "rect" /\ PlainRect(attrsH[n])) =>
            LET T == get_ts(attrsH[n])
                old == Corners(attrsH[n])
                new == Corners(attrs[n])
            IN \A i \in 1..4 : new[i] = Apply(T, old[i][1], old[i][2])

\* C6: a shape baked with a transform of scale k has k times the stroke-width that
\* was in effect on it (its own, else the nearest ancestor's, else 1); a shape
\* baked with a transform without scale keeps its stroke-width attribute as it was.
C6_StrokeWidth ==
    \A n \in Nodes :
        Baked(n) =>
            LET T == get_ts(attrsH[n])
                k == get_scale(T)[1]
                w == resolve_stroke_width(attrsH, n)
            IN IF has_scale(T)
               THEN Has(attrs[n], "stroke-width")
                    /\ attrs[n]["stroke-width"] = Length(w.num * k, w.unit)
               ELSE /\ Has(attrs[n], "stroke-width") <=> Has(attrsH[n], "stroke-width")
                    /\ Has(attrs[n], "stroke-width") => attrs[n]["stroke-width"] = attrsH[n]["stroke-width"]

\* a baked child of a hoisted group, with a scale in the composed transform and the
\* stroke-width of an ancestor
C6_Witness ==
    \E n \in Nodes :
        /\ Baked(n)
        /\ parent[n] # -1 /\ Has(before[parent[n]], "transform")
        /\ has_scale(get_ts(attrsH[n]))
        /\ ~Has(attrsH[n], "stroke-width")
        /\ resolve_stroke_width(attrsH, n) # Length(1, "none")

\* a group the first loop hoists
EligibleGroup(g, B) ==
    /\ tag[g] = "g"
    /\ TypedTs(B[g])
    /\ is_valid_transform(B[g]) /\ is_valid_attrs(B[g])
    /\ \A c \in ChildrenOf(g) :
        is_shape(tag[c]) /\ ~ts_panics(B[c]) /\ process_gate(tag[c], B[c])

SamplePoints == {<<0, 0>>, <<1, 0>>, <<0, 1>>}

\* C7: after the hoisting loop an eligible group has no transform, a child that
\* had a transform T_c has one that maps p to T(T_c(p)), a child that had none
\* has T, and nothing else of the child has changed.
C7_Composition ==
    HoistOver =>
        \A g \in Nodes :
            EligibleGroup(g, before) =>
                LET T == get_ts(before[g]) IN
                /\ attrsH[g] = Remove(before[g], "transform")
                /\ tag[g] = "g"
                /\ \A c \in ChildrenOf(g) :
                    /\ TypedTs(attrsH[c])
                    /\ Remove(attrsH[c], "transform") = Remove(before[c], "transform")
                    /\ IF Has(before[c], "transform")
                       THEN \A p \in SamplePoints :
                              LET q == Apply(get_ts(before[c]), p[1], p[2]) IN
                              Apply(get_ts(attrsH[c]), p[1], p[2]) = Apply(T, q[1], q[2])
                       ELSE get_ts(attrsH[c]) = T

\* a hoisted group with a child without transform and a child whose transform
\* does not commute with the group's
C7_Witness ==
    /\ HoistOver
    /\ \E g \in Nodes :
        /\ EligibleGroup(g, before)
        /\ \E c \in ChildrenOf(g) : ~Has(before[c], "transform")
        /\ \E c \in ChildrenOf(g) :
            /\ Has(before[c], "transform")
            /\ append(get_ts(before[g]), get_ts(before[c])) # append(get_ts(before[c]), get_ts(before[g]))

\* C8: a second run on the result of a run changes no attribute of any element.
C8_Idempotent == (phase = "done" /\ run >= 2) => attrs = before

\* a second run has finished on a document the first run changed and in which an
\* element kept its transform
C8_Witness ==
    /\ phase = "done" /\ run = 2
    /\ before # attrs0
    /\ \E n \in Nodes : Has(before[n], "transform")

\* a transform that is no transform, or a position attribute that is no length
Untyped(k, a) ==
    \/ ts_panics(a)
    \/ is_shape(k) /\ \E aid \in PosAttrs(k) : Has(a, aid) /\ a[aid].t # "Length"

\* C9: the run never aborts, and an element with a transform that is no transform
\* or a position attribute that is no length keeps the attributes it had.
C9_SoftSkip ==
    /\ ~aborted
    /\ \A n \in Nodes : Untyped(tag[n], before[n]) => attrs[n] = before[n]

\* every transform of the document is on a shape that passes the three checks or
\* on a valid group of such shapes
FullyEligible(B) ==
    \A n \in Nodes :
        Has(B[n], "transform") =>
            \/ is_shape(tag[n]) /\ TypedTs(B[n]) /\ process_gate(tag[n], B[n])
            \/ EligibleGroup(n, B)

\* C10: when a run over a fully eligible document has finished, no element has a
\* transform.
C10_AllBaked ==
    (phase = "done" /\ FullyEligible(before)) => \A n \in Nodes : ~Has(attrs[n], "transform")

\* a finished run over a fully eligible document with a transform on a group and
\* on one of its children
C10_Witness ==
    /\ phase = "done"
    /\ FullyEligible(before)
    /\ \E g \in Nodes :
        /\ tag[g] = "g" /\ Has(before[g], "transform")
        /\ \E c \in ChildrenOf(g) : Has(before[c], "transform")

====
